---- MODULE Spec2Model ----
(***************************************************************************)
(* Model of the rd2l_pred feature pipeline:                                *)
(*   feature_engineering.py  hero_information and the per-player loop      *)
(*   training_data_prep.py   modification                                  *)
(*   training_data_prep.py   league_money and df_gen                       *)
(* Floats are modelled as exact rationals [num, den] plus the two special  *)
(* values NaN and Inf that pandas' elementwise division can produce.       *)
(***************************************************************************)
EXTENDS Integers, Sequences, FiniteSets, TLC

----------------------------------------------------------------------------
(* Bounds of the model *)

\* hero ids range over MinHeroId..MaxHeroId: the range holds a one-digit
\* and a two-digit id, so numeric and textual order of the labels differ
MinHeroId == 9
MaxHeroId == 11
\* games of one hero record range over 0..MaxGames, win over 0..games
MaxGames == 2
\* a hero-usage response holds at most MaxRecords records
MaxRecords == 3
\* the collaborator answers with the error sentinel at most MaxSentinels
\* times for one player (a bound on the environment, not on the code)
MaxSentinels == 2
\* the prepped files of one run hold at most MaxPlayers players in all
MaxPlayers == 3
\* a draft file holds at most MaxRows rows
MaxRows == 2
\* the players of the draft files are 1..MaxPlayerId
MaxPlayerId == 2
\* the draft file of the later season holds at most MaxLaterRows rows
MaxLaterRows == 1
\* the texts given to modification on its own have at most MaxTextLen
\* characters, the profile links apart
MaxTextLen == 4
\* a season token has at most MaxTokenLen characters, and what follows it
\* in a file name at most MaxRestLen
MaxTokenLen == 2
MaxRestLen == 3

----------------------------------------------------------------------------
(* Numbers *)

VARIABLES
  since,    \* seconds slept (time.sleep) since heroes() was last called
  h_pc,     \* where hero_information stands: idle, heroes, sleep, build, done
  h_x,      \* x: the text heroes(player) returned last
  h_log,    \* history: every call of heroes(player) of this invocation
  h_out,    \* what hero_information returned or raised
  stratz_available,  \* STRATZ_AVAILABLE
  listing,  \* os.listdir("output") when the assembler starts
  prepped,  \* the prepped csv files of output/: file name -> rows
  a_pc,     \* where the assembler stands
  files,    \* files: the listing after the menu's removals
  a_fi,     \* position of the loop "for csv in files"
  players,  \* the rows of df, the current file
  a_i,      \* _: position of the loop over players
  output,   \* output: the dict of rows, in insertion order
  disk,     \* the result files of output/
  diag,     \* the diagnostics printed so far: skipped players, Stratz failures
  data,     \* the csv files of data/: file name -> rows
  dir,      \* os.listdir("data"): the names in the order the system gives
  p_said,   \* what training_data_prep has printed about its input
  p_pc,     \* where training_data_prep stands
  draft,    \* draft: the sorted names of the draft files
  captains, \* captains: the sorted names of the captain files
  p_pass,   \* which of the two calls of league_money is running
  p_ci,     \* position of the loop "for season in captains"
  money,    \* money: the dict of season summaries
  p_di,     \* position of the loop "for season in draft"
  p_d,      \* d: the frame of the current draft file after assign
  p_ri,     \* players: position of the loop over the rows of d
  players_dict,  \* players_dict: the dict of rows, in insertion order
  written,  \* output/training_data_prepped.csv
  m_pc,     \* where a call of modification on its own stands
  m_in,     \* input_string
  m_out,    \* what modification returned
  n_pc,     \* where the derivation of the season keys of two names stands
  n_captain,     \* season: the name of a captain file
  n_draft,       \* season: the name of a draft file
  n_money_key,   \* the key league_money stores the captain file under
  n_draft_key    \* player_season: the key df_gen looks up

heroVars == <<since, h_pc, h_x, h_log, h_out>>
asmVars == <<stratz_available, listing, prepped, a_pc, files, a_fi, players,
             a_i, output, disk, diag>>
modVars == <<m_pc, m_in, m_out>>
nameVars == <<n_pc, n_captain, n_draft, n_money_key, n_draft_key>>
prepVars == <<data, dir, p_said, p_pc, draft, captains, p_pass, p_ci, money, p_di, p_d,
              p_ri, players_dict, written, modVars, nameVars>>
vars == <<heroVars, asmVars, prepVars>>

\* the two non-finite floats, written as the divisions that produce them
NaN == [num |-> 0, den |-> 0]
Inf == [num |-> 1, den |-> 0]

RECURSIVE GCD(_, _)
GCD(a, b) == IF b = 0 THEN a ELSE GCD(b, a % b)

\* the float n/d for naturals n and d, as a reduced fraction
Frac(n, d) ==
  IF d = 0 THEN (IF n = 0 THEN NaN ELSE Inf)
  ELSE LET g == GCD(n, d) IN [num |-> n \div g, den |-> d \div g]

\* an integer read as a float
FromInt(n) == [num |-> n, den |-> 1]

FracAdd(a, b) == Frac(a.num * b.den + b.num * a.den, a.den * b.den)

\* the float a divided by the positive integer n
FracDivInt(a, n) == Frac(a.num, a.den * n)

\* elementwise Series division of two integer cells (x.win / x.games):
\* 0/0 is NaN and k/0 is inf, no exception is raised
Div(a, b) == Frac(a, b)

\* digits of a natural number, as f'{hero_id}' prints them
RECURSIVE Str(_)
Str(n) == IF n < 10 THEN <<n>> ELSE Str(n \div 10) \o <<n % 10>>

\* int() of a digit string
RECURSIVE ParseInt(_)
ParseInt(s) ==
  IF Len(s) = 0 THEN 0
  ELSE 10 * ParseInt(SubSeq(s, 1, Len(s) - 1)) + s[Len(s)]

----------------------------------------------------------------------------
(* Dicts and written files *)

HasKey(d, k) == \E i \in DOMAIN d : d[i].key = k

\* dict.setdefault in place of dict.update: an existing key keeps its value
UpdateKeepFirst(d, k, row) ==
  IF HasKey(d, k) THEN d ELSE Append(d, [key |-> k, row |-> row])

\* dict.update({k: row}): a new key is appended, an existing key keeps its
\* place and gets the new value
Update(d, k, row) ==
  IF HasKey(d, k)
  THEN [i \in DOMAIN d |-> IF d[i].key = k THEN [key |-> k, row |-> row] ELSE d[i]]
  ELSE Append(d, [key |-> k, row |-> row])

\* a Series is a sequence of cells [label, value]
HasLabel(row, l) == \E i \in DOMAIN row : row[i].label = l
Pos(row, l) == CHOOSE i \in DOMAIN row : row[i].label = l
Lookup(row, l) == row[Pos(row, l)].value
LabelsOf(row) == {row[i].label : i \in DOMAIN row}

\* the index of the frame built from the dict d of Series: the union of
\* their labels (the order of the index is not modelled)
IndexOf(d) == UNION {LabelsOf(d[k].row) : k \in DOMAIN d}

\* the frame as it would be with the absent cells filled with 0
FromDictZeroFilled(d) ==
  [k \in DOMAIN d |->
     [key |-> d[k].key,
      row |-> [l \in IndexOf(d) |->
                 IF HasLabel(d[k].row, l) THEN Lookup(d[k].row, l) ELSE FromInt(0)]]]

\* pd.DataFrame.from_dict(d), pd.DataFrame(data=d): one column per key, in
\* the order of the dict, over the union of the labels; a cell whose label
\* the Series lacks is NaN
FromDict(d) ==
  [k \in DOMAIN d |->
     [key |-> d[k].key,
      row |-> [l \in IndexOf(d) |->
                 IF HasLabel(d[k].row, l) THEN Lookup(d[k].row, l) ELSE NaN]]]

\* a file the scripts write: absent, left by an earlier run, or written by this run
NoFile == [exists |-> FALSE, fresh |-> FALSE, table |-> <<>>]
OldFile == [exists |-> TRUE, fresh |-> FALSE, table |-> <<>>]
Written(table) == [exists |-> TRUE, fresh |-> TRUE, table |-> table]

----------------------------------------------------------------------------
(* The hero-usage collaborator and hero_information (feature_engineering.py) *)

\* one HeroUsageRecord of the collaborator: win never exceeds games
HeroRecords ==
  {r \in [hero_id : MinHeroId..MaxHeroId, games : 0..MaxGames, win : 0..MaxGames] :
     r.win <= r.games}

\* the JSON arrays the collaborator can return: one record per hero
HeroLists ==
  {s \in UNION {[1..n -> HeroRecords] : n \in 0..MaxRecords} :
     \A i, j \in DOMAIN s : i # j => s[i].hero_id # s[j].hero_id}

\* the text {"error":"Internal Server Error"}
Sentinel == [kind |-> "sentinel", records |-> <<>>]
\* any other text that is not a JSON array of records
OtherText == [kind |-> "other", records |-> <<>>]
Json(s) == [kind |-> "json", records |-> s]

HeroResponses == {Json(s) : s \in HeroLists} \cup {Sentinel, OtherText}

DroppedColumns ==
  {"last_played", "with_games", "with_win", "against_games", "against_win"}
RecordColumns == {"hero_id", "games", "win"} \cup DroppedColumns

\* pd.read_json of a JSON array: an empty array gives a frame without columns
ReadJson(x) ==
  [columns |-> IF Len(x.records) = 0 THEN {} ELSE RecordColumns,
   rows |-> x.records]

\* d.assign(winrate=lambda x: x.win/x.games)
AssignWinrate(rows) ==
  [i \in DOMAIN rows |->
     [hero_id |-> rows[i].hero_id, games |-> rows[i].games, win |-> rows[i].win,
      winrate |-> Div(rows[i].win, rows[i].games)]]

\* the frame as it would be with the fillna step left out
FillNaSkipped(rows) == rows

\* d.fillna(0)
FillNa(rows) ==
  [i \in DOMAIN rows |->
     IF rows[i].winrate = NaN THEN [rows[i] EXCEPT !.winrate = FromInt(0)]
     ELSE rows[i]]

RECURSIVE SumGames(_)
SumGames(rows) ==
  IF Len(rows) = 0 THEN 0 ELSE rows[1].games + SumGames(Tail(rows))

RECURSIVE SumWin(_)
SumWin(rows) ==
  IF Len(rows) = 0 THEN 0 ELSE rows[1].win + SumWin(Tail(rows))

\* the rows of one hero, in input order (a pivot_table group)
RowsOf(rows, h) == SelectSeq(rows, LAMBDA r : r.hero_id = h)

RECURSIVE SumWinrate(_)
SumWinrate(rows) ==
  IF Len(rows) = 0 THEN FromInt(0)
  ELSE FracAdd(rows[1].winrate, SumWinrate(Tail(rows)))

\* aggfunc='sum' over values='games'
PivotGames(rows, h) == FromInt(SumGames(RowsOf(rows, h)))

\* aggfunc='mean' over values='winrate'
PivotWinrate(rows, h) ==
  FracDivInt(SumWinrate(RowsOf(rows, h)), Len(RowsOf(rows, h)))

\* the hero ids of the frame in ascending order: the columns of a pivot table
RECURSIVE Ascending(_)
Ascending(S) ==
  IF S = {} THEN <<>>
  ELSE LET m == CHOOSE x \in S : \A y \in S : x <= y
       IN <<m>> \o Ascending(S \ {m})

PivotColumns(rows) == Ascending({rows[i].hero_id : i \in DOMAIN rows})

\* the label f'{metric}_{hero_id}': the metric name and the printed id
Label(metric, h) == [metric |-> metric, id |-> Str(h)]
\* a label without an id part
Plain(name) == [metric |-> name, id |-> <<>>]

\* 'games' < 'winrate' as Python compares the two strings
MetricLess(m1, m2) == m1 = "games" /\ m2 = "winrate"

\* two digit strings compared as Python compares str
RECURSIVE TextLess(_, _)
TextLess(s, t) ==
  IF Len(t) = 0 THEN FALSE
  ELSE IF Len(s) = 0 THEN TRUE
  ELSE IF s[1] # t[1] THEN s[1] < t[1]
  ELSE TextLess(Tail(s), Tail(t))

\* the sort key with the int() conversion left out
KeyLessText(a, b) ==
  \/ TextLess(a.id, b.id)
  \/ a.id = b.id /\ MetricLess(a.metric, b.metric)

\* the sort key (int(x.split('_')[1]), x.split('_')[0]) of two labels compared
KeyLess(a, b) ==
  \/ ParseInt(a.id) < ParseInt(b.id)
  \/ ParseInt(a.id) = ParseInt(b.id) /\ MetricLess(a.metric, b.metric)

\* sorted(columns, key=...): a stable sort
RECURSIVE Insert(_, _)
Insert(c, s) ==
  IF Len(s) = 0 THEN <<c>>
  ELSE IF KeyLess(c.label, s[1].label) THEN <<c>> \o s
  ELSE <<s[1]>> \o Insert(c, Tail(s))

RECURSIVE SortColumns(_)
SortColumns(s) ==
  IF Len(s) = 0 THEN <<>>
  ELSE Insert(s[Len(s)], SortColumns(SubSeq(s, 1, Len(s) - 1)))

\* pd.concat([games_pivot, winrate_pivot], axis=1): two rows ('games',
\* 'winrate'), each column holds a value in its own row and NaN in the other
ConcatPivots(rows) ==
  LET ids == PivotColumns(rows)
      g == [i \in DOMAIN ids |->
              [label |-> Label("games", ids[i]),
               cells |-> <<PivotGames(rows, ids[i]), NaN>>]]
      w == [i \in DOMAIN ids |->
              [label |-> Label("winrate", ids[i]),
               cells |-> <<NaN, PivotWinrate(rows, ids[i])>>]]
  IN g \o w

\* x.dropna().reset_index(drop=True)[0]
FirstNotNa(cells) == IF cells[1] # NaN THEN cells[1] ELSE cells[2]

\* final_df.reindex(columns=columns_sorted).apply(...)
SingleRow(rows) ==
  LET cols == SortColumns(ConcatPivots(rows))
  IN [i \in DOMAIN cols |->
        [label |-> cols[i].label, value |-> FirstNotNa(cols[i].cells)]]

Raise(e) == [tag |-> e, row |-> <<>>]
Return(row) == [tag |-> "ok", row |-> row]

\* the account check of line 54
IsPrivate(rows) == SumWin(rows) = 0 /\ SumGames(rows) = 0

\* the aggregate entries with total_winrate taken as the mean of the
\* per-hero win rates
GeneralMeanWinrate(rows) ==
  <<[label |-> Plain("total_games_played"), value |-> FromInt(SumGames(rows))],
    [label |-> Plain("total_winrate"),
     value |-> FracDivInt(SumWinrate(rows), Len(rows))]>>

\* ser: the two aggregate entries, in the order of index=[...]
General(rows) ==
  <<[label |-> Plain("total_games_played"), value |-> FromInt(SumGames(rows))],
    [label |-> Plain("total_winrate"),
     value |-> Div(SumWin(rows), SumGames(rows))]>>

\* hero_information with the two parts of the last concat exchanged
HeroFeaturesHeroesFirst(x) ==
  IF x.kind # "json" THEN Raise("ValueError")
  ELSE LET d0 == ReadJson(x) IN
    IF ~(DroppedColumns \subseteq d0.columns) THEN Raise("KeyError")
    ELSE LET d == FillNa(AssignWinrate(d0.rows)) IN
      IF IsPrivate(d) THEN Raise("TypeError")
      ELSE Return(SingleRow(d) \o General(d))

\* hero_information after its retry loop, on the text x
HeroFeatures(x) ==
  IF x.kind # "json" THEN Raise("ValueError")
  ELSE LET d0 == ReadJson(x) IN
    IF ~(DroppedColumns \subseteq d0.columns) THEN Raise("KeyError")
    ELSE LET d == FillNa(AssignWinrate(d0.rows)) IN
      IF IsPrivate(d) THEN Raise("TypeError")
      ELSE Return(General(d) \o SingleRow(d))

\* seconds of time.sleep in the retry loop of hero_information
RetryDelay == 10

NoText == [kind |-> "none", records |-> <<>>]
NoOutcome == [tag |-> "none", row |-> <<>>]

SentinelsSeen == Len(SelectSeq(h_log, LAMBDA e : e.text = Sentinel))

\* x = heroes(player): the collaborator answers with one of the texts R
HeroesCall(R) ==
  /\ h_pc = "heroes"
  /\ \E x \in R :
       /\ x = Sentinel => SentinelsSeen < MaxSentinels
       /\ h_x' = x
       /\ h_log' = Append(h_log, [gap |-> since, text |-> x])
       /\ h_pc' = IF x = Sentinel THEN "sleep" ELSE "build"
  /\ since' = 0
  /\ UNCHANGED h_out

\* the retry loop calling again at once, without the sleep
HeroRetryNoSleep ==
  /\ h_pc = "sleep"
  /\ h_pc' = "heroes"
  /\ UNCHANGED <<since, h_x, h_log, h_out>>

\* the body of the while loop: print, time.sleep(10), then call again
HeroRetrySleep ==
  /\ h_pc = "sleep"
  /\ since' = since + RetryDelay
  /\ h_pc' = "heroes"
  /\ UNCHANGED <<h_x, h_log, h_out>>

\* lines 39..73 on the text that left the loop
HeroBuild ==
  /\ h_pc = "build"
  /\ h_out' = HeroFeatures(h_x)
  /\ h_pc' = "done"
  /\ UNCHANGED <<since, h_x, h_log>>

HeroIdle ==
  /\ since = 0 /\ h_pc = "idle" /\ h_x = NoText /\ h_log = <<>> /\ h_out = NoOutcome

----------------------------------------------------------------------------
(* hero_information called once, as the tests of the repository call it *)

AsmIdle ==
  /\ stratz_available = FALSE
  /\ listing = <<>>
  /\ prepped = <<>>
  /\ a_pc = "idle"
  /\ files = <<>>
  /\ a_fi = 0
  /\ players = <<>>
  /\ a_i = 0
  /\ output = <<>>
  /\ disk = <<>>
  /\ diag = <<>>

ModIdle == m_pc = "idle" /\ m_in = <<>> /\ m_out = <<>>

NameIdle ==
  /\ n_pc = "idle" /\ n_captain = <<>> /\ n_draft = <<>>
  /\ n_money_key = <<>> /\ n_draft_key = <<>>

PrepIdle ==
  /\ ModIdle
  /\ NameIdle
  /\ data = <<>>
  /\ dir = <<>>
  /\ p_said = <<>>
  /\ p_pc = "idle"
  /\ draft = <<>>
  /\ captains = <<>>
  /\ p_pass = 0
  /\ p_ci = 0
  /\ money = <<>>
  /\ p_di = 0
  /\ p_d = <<>>
  /\ p_ri = 0
  /\ players_dict = <<>>
  /\ written = NoFile

InitHero ==
  /\ AsmIdle
  /\ PrepIdle
  /\ since = 0
  /\ h_pc = "heroes"
  /\ h_x = NoText
  /\ h_log = <<>>
  /\ h_out = NoOutcome

OnceHeroesCall == HeroesCall(HeroResponses) /\ UNCHANGED <<asmVars, prepVars>>
OnceRetrySleep == HeroRetrySleep /\ UNCHANGED <<asmVars, prepVars>>
OnceBuild == HeroBuild /\ UNCHANGED <<asmVars, prepVars>>

NextHero ==
  \/ OnceHeroesCall
  \/ OnceRetrySleep
  \/ OnceBuild

SpecHero == InitHero /\ [][NextHero]_vars

----------------------------------------------------------------------------
(* The assembler: __main__ of feature_engineering.py *)

\* the file names of output/, as csv.split("_") splits them
TrainingCsv == <<"training", "data", "prepped.csv">>
PredictionCsv == <<"prediction", "data", "prepped.csv">>
\* f'output/result_{csv}'
ResultOf(csv) == <<"result">> \o csv

PreppedNames == {TrainingCsv, PredictionCsv}
ResultNames == {ResultOf(f) : f \in PreppedNames}

\* str.title() of the first token of a file name
Title(t) ==
  CASE t = "result" -> "Result"
    [] t = "training" -> "Training"
    [] t = "prediction" -> "Prediction"

\* the season tokens of the keys
Seasons == {"S30", "S31"}

\* the key "{player_id}_{season}" of a row of a prepped file
Key(p, s) == [player |-> p, season |-> s]

\* one row of a prepped file as df.iloc[_]: its name is the key, and of its
\* fields the model keeps player_id
PreppedRow(p, s) ==
  [name |-> Key(p, s),
   player_id |-> p,
   fields |-> <<[label |-> Plain("player_id"), value |-> FromInt(p)]>>]

\* a prepped file with the players 1..n of season s
PreppedFile(n, s) == [i \in 1..n |-> PreppedRow(i, s)]

\* all orders in which os.listdir can return the files of the set S
Perms(S) ==
  {q \in [1..Cardinality(S) -> S] : \A i, j \in DOMAIN q : i # j => q[i] # q[j]}

\* the directory output/ holds one or both prepped files and possibly a
\* result file of an earlier run
Listings ==
  UNION {Perms(S) : S \in {T \in SUBSET (PreppedNames \cup {ResultOf(TrainingCsv)}) :
                              T \cap PreppedNames # {}}}

Member(q, x) == \E i \in DOMAIN q : q[i] = x

\* list.remove(x) on a list that holds x once
Remove(q, x) == SelectSeq(q, LAMBDA y : y # x)

\* the texts the collaborator returns for player p in the assembler runs:
\* the sentinel, another error text, an empty array, a history without
\* games, and a history of one hero that depends on the player
HeroOf(p) == MinHeroId + ((p - 1) % (MaxHeroId - MinHeroId + 1))
AsmTexts(p) ==
  {Sentinel, OtherText, Json(<<>>),
   Json(<<[hero_id |-> HeroOf(p), games |-> 0, win |-> 0]>>),
   Json(<<[hero_id |-> HeroOf(p), games |-> MaxGames, win |-> 1]>>)}

\* what get_stratz_features can come to: features, no data, an exception
StratzOutcomes == {"features", "empty", "error"}

\* the Series get_stratz_features returns
StratzSeries(st) ==
  IF st = "features"
  THEN <<[label |-> Plain("stratz_match_count"), value |-> FromInt(1)]>>
  ELSE <<>>

\* what get_stratz_features prints when it returns an empty Series
StratzSaid(st) == IF st = "empty" THEN "no stratz data" ELSE "stratz error"

\* combine_features as it would be with a zero put in for the missing value
CombineFeaturesPlaceholder(hero, stratz) ==
  IF Len(stratz) = 0
  THEN hero \o <<[label |-> Plain("stratz_match_count"), value |-> FromInt(0)]>>
  ELSE hero \o stratz

\* combine_features(hero_series, stratz_series)
CombineFeatures(hero, stratz) ==
  IF Len(stratz) = 0 THEN hero ELSE hero \o stratz

\* seconds of time.sleep after a player was added
PlayerDelay == 2

InitAsm ==
  /\ HeroIdle
  /\ PrepIdle
  /\ stratz_available \in BOOLEAN
  /\ listing \in Listings
  /\ \E nt, np \in 0..MaxPlayers : \E s \in Seasons :
       /\ nt + np <= MaxPlayers
       /\ nt > 0 <=> Member(listing, TrainingCsv)
       /\ np > 0 <=> Member(listing, PredictionCsv)
       /\ np = 0 => s = "S30"
       /\ prepped = [f \in PreppedNames |->
                       IF f = TrainingCsv THEN PreppedFile(nt, "S30")
                       ELSE PreppedFile(np, s)]
  /\ a_pc = "menu"
  /\ files = <<>>
  /\ a_fi = 0
  /\ players = <<>>
  /\ a_i = 0
  /\ output = <<>>
  /\ disk = [f \in ResultNames |-> IF Member(listing, f) THEN OldFile ELSE NoFile]
  /\ diag = <<>>

\* lines 153..160: the menu; list.remove raises ValueError, which nothing
\* catches, when the file to remove is not in the listing
AsmMenu ==
  /\ a_pc = "menu"
  /\ \E choice \in {"p", "t", "b"} :
       LET removed == IF choice = "p" THEN TrainingCsv ELSE PredictionCsv IN
         IF choice = "b"
         THEN /\ files' = listing
              /\ a_fi' = 1
              /\ a_pc' = "file"
         ELSE IF Member(listing, removed)
         THEN /\ files' = Remove(listing, removed)
              /\ a_fi' = 1
              /\ a_pc' = "file"
         ELSE /\ a_pc' = "crashed"
              /\ UNCHANGED <<files, a_fi>>
  /\ UNCHANGED <<prepVars, heroVars, stratz_available, listing, prepped, players, a_i,
                 output, disk, diag>>

\* after the last file the script ends
AsmEnd ==
  /\ a_pc = "file"
  /\ a_fi > Len(files)
  /\ a_pc' = "exit"
  /\ UNCHANGED <<prepVars, heroVars, stratz_available, listing, prepped, files, a_fi,
                 players, a_i, output, disk, diag>>

\* lines 169..172: a result file is passed over
AsmSkipResult ==
  /\ a_pc = "file"
  /\ a_fi <= Len(files)
  /\ Title(files[a_fi][1]) = "Result"
  /\ a_fi' = a_fi + 1
  /\ UNCHANGED <<prepVars, heroVars, stratz_available, listing, prepped, a_pc, files,
                 players, a_i, output, disk, diag>>

\* the reading of a file as it would be with output = {} inside the loop
\* over the files
AsmReadFileClearsOutput ==
  /\ a_pc = "file"
  /\ a_fi <= Len(files)
  /\ Title(files[a_fi][1]) # "Result"
  /\ players' = prepped[files[a_fi]]
  /\ output' = <<>>
  /\ a_pc' = "prompt"
  /\ UNCHANGED <<prepVars, heroVars, stratz_available, listing, prepped, files, a_fi,
                 a_i, disk, diag>>

\* lines 175..182: the file is read and its players listed
AsmReadFile ==
  /\ a_pc = "file"
  /\ a_fi <= Len(files)
  /\ Title(files[a_fi][1]) # "Result"
  /\ players' = prepped[files[a_fi]]
  /\ a_pc' = "prompt"
  /\ UNCHANGED <<prepVars, heroVars, stratz_available, listing, prepped, files, a_fi,
                 a_i, output, disk, diag>>

\* the confirmation as it would be if 'n' wrote the table before leaving
AsmPromptSavesOnNo ==
  /\ a_pc = "prompt"
  /\ \E answer \in {"y", "n"} :
       IF answer = "n"
       THEN /\ a_pc' = "exit"
            /\ disk' = [disk EXCEPT ![ResultOf(files[a_fi])] = Written(FromDict(output))]
            /\ UNCHANGED a_i
       ELSE /\ a_pc' = "player"
            /\ a_i' = 1
            /\ UNCHANGED disk
  /\ UNCHANGED <<prepVars, heroVars, stratz_available, listing, prepped, files, a_fi,
                 players, output, diag>>

\* lines 185..189: the confirmation; 'n' or 'no' ends the process
AsmPrompt ==
  /\ a_pc = "prompt"
  /\ \E answer \in {"y", "n"} :
       IF answer = "n"
       THEN /\ a_pc' = "exit"
            /\ UNCHANGED a_i
       ELSE /\ a_pc' = "player"
            /\ a_i' = 1
  /\ UNCHANGED <<prepVars, heroVars, stratz_available, listing, prepped, files, a_fi,
                 players, output, disk, diag>>

\* lines 191..197: the next player; hero_information is entered
AsmStartPlayer ==
  /\ a_pc = "player"
  /\ a_i <= Len(players)
  /\ a_pc' = "hero"
  /\ h_pc' = "heroes"
  /\ h_x' = NoText
  /\ h_log' = <<>>
  /\ h_out' = NoOutcome
  /\ UNCHANGED <<prepVars, since, stratz_available, listing, prepped, files, a_fi,
                 players, a_i, output, disk, diag>>

\* x = heroes(player) inside hero_information
AsmHeroesCall ==
  /\ a_pc = "hero"
  /\ HeroesCall(AsmTexts(players[a_i].player_id))
  /\ UNCHANGED <<asmVars, prepVars>>

AsmHeroRetrySleep ==
  /\ a_pc = "hero"
  /\ HeroRetrySleep
  /\ UNCHANGED <<asmVars, prepVars>>

AsmHeroBuild ==
  /\ a_pc = "hero"
  /\ HeroBuild
  /\ UNCHANGED <<asmVars, prepVars>>

\* hero_information has returned or raised: its locals are gone
HeroLeave ==
  /\ h_pc' = "idle"
  /\ h_x' = NoText
  /\ h_log' = <<>>
  /\ h_out' = NoOutcome

HeroReturned(tag) == a_pc = "hero" /\ h_pc = "done" /\ h_out.tag = tag

\* lines 199..212: the features are combined and the row enters output;
\* get_stratz_features is called only if STRATZ_AVAILABLE, and prints when
\* it has no data or has caught an exception
AsmAddPlayer ==
  /\ HeroReturned("ok")
  /\ \E st \in StratzOutcomes :
       LET all_features ==
             IF stratz_available
             THEN CombineFeatures(h_out.row, StratzSeries(st))
             ELSE h_out.row
       IN /\ output' = Update(output, players[a_i].name,
                              players[a_i].fields \o all_features)
          /\ diag' = IF stratz_available /\ st # "features"
                     THEN Append(diag, [said |-> StratzSaid(st),
                                        player |-> players[a_i].name])
                     ELSE diag
  /\ a_pc' = "sleep"
  /\ HeroLeave
  /\ UNCHANGED <<prepVars, since, stratz_available, listing, prepped,
                 files, a_fi, players, a_i, disk>>

\* the end of an iteration as it would be if the loop passed over a player
AsmSleepSkipsPlayer ==
  /\ a_pc = "sleep"
  /\ since' = since + PlayerDelay
  /\ a_i' = a_i + 2
  /\ a_pc' = "player"
  /\ UNCHANGED <<prepVars, h_pc, h_x, h_log, h_out, stratz_available, listing, prepped,
                 files, a_fi, players, output, disk, diag>>

\* line 215: the delay after a completed player
AsmSleep ==
  /\ a_pc = "sleep"
  /\ since' = since + PlayerDelay
  /\ a_i' = a_i + 1
  /\ a_pc' = "player"
  /\ UNCHANGED <<prepVars, h_pc, h_x, h_log, h_out, stratz_available, listing, prepped,
                 files, a_fi, players, output, disk, diag>>

\* lines 217..220: except ValueError
AsmSkipValueError ==
  /\ HeroReturned("ValueError")
  /\ diag' = Append(diag, [said |-> "ValueError", player |-> players[a_i].name])
  /\ a_i' = a_i + 1
  /\ a_pc' = "player"
  /\ HeroLeave
  /\ UNCHANGED <<prepVars, since, stratz_available, listing, prepped,
                 files, a_fi, players, output, disk>>

\* lines 221..223: except TypeError
AsmSkipPrivate ==
  /\ HeroReturned("TypeError")
  /\ diag' = Append(diag, [said |-> "private", player |-> players[a_i].name])
  /\ a_i' = a_i + 1
  /\ a_pc' = "player"
  /\ HeroLeave
  /\ UNCHANGED <<prepVars, since, stratz_available, listing, prepped,
                 files, a_fi, players, output, disk>>

\* any other exception leaves the try statement and ends the process
AsmUncaught ==
  /\ a_pc = "hero" /\ h_pc = "done"
  /\ h_out.tag \notin {"ok", "ValueError", "TypeError"}
  /\ a_pc' = "crashed"
  /\ HeroLeave
  /\ UNCHANGED <<prepVars, since, stratz_available, listing, prepped,
                 files, a_fi, players, a_i, output, disk, diag>>

\* lines 224..226: after the last player the whole of output is written
AsmSave ==
  /\ a_pc = "player"
  /\ a_i > Len(players)
  /\ disk' = [disk EXCEPT ![ResultOf(files[a_fi])] = Written(FromDict(output))]
  /\ a_fi' = a_fi + 1
  /\ a_pc' = "file"
  /\ UNCHANGED <<prepVars, heroVars, stratz_available, listing, prepped, files, players,
                 a_i, output, diag>>

NextAsm ==
  \/ AsmMenu
  \/ AsmEnd
  \/ AsmSkipResult
  \/ AsmReadFile
  \/ AsmPrompt
  \/ AsmStartPlayer
  \/ AsmHeroesCall
  \/ AsmHeroRetrySleep
  \/ AsmHeroBuild
  \/ AsmAddPlayer
  \/ AsmSleep
  \/ AsmSkipValueError
  \/ AsmSkipPrivate
  \/ AsmUncaught
  \/ AsmSave

SpecAsm == InitAsm /\ [][NextAsm]_vars

----------------------------------------------------------------------------
(* training_data_prep.py: list_format, league_money, df_gen and __main__ *)

\* Python's order of the season tokens as strings
SeasonRank(s) == CASE s = "S30" -> 1 [] s = "S31" -> 2

\* the file names of data/, as str.split() splits them: token 1 is the
\* season, token 5 tells a draft file from a captain file
DraftName(s) == <<s, "RD2L", "Season", "Player", "Draft">>
CaptainName(s) == <<s, "RD2L", "Season", "Captains", "Sheet">>
DataNames == {DraftName(s) : s \in Seasons} \cup {CaptainName(s) : s \in Seasons}

\* Texts are sequences of characters. A digit stands for itself, as in Str;
\* Slash is the character '/', and Letter any character that is neither
Slash == 47
Letter == 104

\* Space is the character ' '
Space == 32

\* str.split(c): the pieces between the occurrences of the character c,
\* empty pieces included
RECURSIVE SplitOn(_, _)
SplitOn(s, c) ==
  IF \A i \in DOMAIN s : s[i] # c THEN <<s>>
  ELSE LET i == CHOOSE k \in DOMAIN s :
                  s[k] = c /\ \A j \in 1..(k - 1) : s[j] # c
       IN <<SubSeq(s, 1, i - 1)>> \o SplitOn(SubSeq(s, i + 1, Len(s)), c)

\* str.split("/")
Split(s) == SplitOn(s, Slash)

\* str.split() of a text whose only whitespace is the space: the pieces
\* between runs of spaces, none of them empty
SplitWhitespace(s) == SelectSeq(SplitOn(s, Space), LAMBDA t : Len(t) > 0)

\* line 97 as it would be with [-1] in place of [0]
SeasonOfDraftLastToken(season) ==
  LET x == SplitOn(season, Space) IN x[Len(x)]

\* lines 57 and 64: season.split()[0]
SeasonOfCaptain(season) == SplitWhitespace(season)[1]

\* line 97: season.split(" ")[0]
SeasonOfDraft(season) == SplitOn(season, Space)[1]

\* modification as it would be with [0] in place of [-1]
modificationFirst(input_string) == Split(input_string)[1]

\* modification(input_string): input_string.split("/")[-1]
modification(input_string) ==
  LET x == Split(input_string) IN x[Len(x)]

\* a Dotabuff profile link of the shape x://x/x/<id>
Link(p) == <<Letter, Slash, Slash, Letter, Slash, Letter, Slash>> \o Str(p)

\* the rows of a captain file: Name, Dotabuff, MMR, Total_Money, Left, with
\* 'Fake Money' before Total_Money in the wide layout; the narrow layout
\* stands for any file that has neither 5 nor 6 columns
CaptainRow5(m) == <<"captain", Link(1), 0, m, 0>>
CaptainRow6(f, m) == <<"captain", Link(1), 0, f, m, 0>>
CaptainRow4(m) == <<"captain", Link(1), m, 0>>

\* the Total_Money columns and the Fake Money columns of the model
MoneyLists == {<<100, 300>>, <<200>>}
FakeLists == {<<1, 2>>, <<500, 0>>}

Missing == [present |-> FALSE, rows |-> <<>>]
File(rows) == [present |-> TRUE, rows |-> rows]

CaptainFiles ==
  {File([i \in DOMAIN m |-> CaptainRow5(m[i])]) : m \in MoneyLists}
  \cup {File([i \in DOMAIN m |-> CaptainRow6(f[i], m[i])]) :
          m \in MoneyLists, f \in FakeLists}
  \cup {File(<<CaptainRow4(100)>>), Missing}

\* one row of a draft file: of its cells the model keeps the cost, the
\* Dotabuff link and the MMR; the cost tells the rows of one file apart
DraftRowOf(p, i) == [link |-> Link(p), cost |-> i, mmr |-> 0]

\* the columns line 87 drops
DroppedDraftColumns == {"Winner:", "Discord ID:", "Player statement: "}

\* the columns that are left after line 87, in the order of the sheet: the
\* link is the second of them, where line 103 reads it
KeptDraftColumns == <<"Cost:", "Dotabuff Link:", "MMR:">>

\* a draft file: absent holds the columns of the sheet that the file lacks
DraftFile(absent, rows) == [present |-> TRUE, absent |-> absent, rows |-> rows]
NoDraft == [present |-> FALSE, absent |-> {}, rows |-> <<>>]

\* the incomplete sheets of the model: each lacks one column
SchemaFaults == {{"Cost:"}, {"Dotabuff Link:"}, {"Winner:"}}

\* a row of the sheet below the rows of the players (the 'statement' row of
\* prediction_data_prep.py line 57): its link cell holds a text that is no
\* profile link
StrayRow == [link |-> Str(0), cost |-> 0, mmr |-> 0]

DraftFiles ==
  {DraftFile({}, [i \in DOMAIN q |-> DraftRowOf(q[i], i)]) :
     q \in UNION {[1..n -> 1..MaxPlayerId] : n \in 1..MaxRows}}
  \cup {DraftFile(a, <<DraftRowOf(1, 1)>>) : a \in SchemaFaults}
  \cup {DraftFile({}, <<DraftRowOf(1, 1), StrayRow>>)}
  \cup {NoDraft}

\* d.shape[1]
Shape1(d) == Len(d[1])

RECURSIVE SumSeq(_)
SumSeq(q) == IF Len(q) = 0 THEN 0 ELSE q[1] + SumSeq(Tail(q))

SeqMin(q) == CHOOSE x \in {q[i] : i \in DOMAIN q} : \A j \in DOMAIN q : x <= q[j]
SeqMax(q) == CHOOSE x \in {q[i] : i \in DOMAIN q} : \A j \in DOMAIN q : x >= q[j]

\* the square of Series.std(): the sample variance, NaN for a single value
Variance(q) ==
  LET n == Len(q)
      sq == [i \in DOMAIN q |-> q[i] * q[i]]
  IN Frac(n * SumSeq(sq) - SumSeq(q) * SumSeq(q), n * (n - 1))

\* the summary as it would be with the mean taken over one value less
MoneySummaryShortMean(total_money) ==
  [count |-> FromInt(Len(total_money)),
   mean |-> Frac(SumSeq(total_money), Len(total_money) - 1),
   std2 |-> Variance(total_money),
   min |-> FromInt(SeqMin(total_money)),
   max |-> FromInt(SeqMax(total_money)),
   sum |-> FromInt(SumSeq(total_money))]

\* pd.concat([d.Total_Money.describe(), s]): of describe()'s entries the
\* model keeps those df_gen reads; std is kept as its square
MoneySummary(total_money) ==
  [count |-> FromInt(Len(total_money)),
   mean |-> Frac(SumSeq(total_money), Len(total_money)),
   std2 |-> Variance(total_money),
   min |-> FromInt(SeqMin(total_money)),
   max |-> FromInt(SeqMax(total_money)),
   sum |-> FromInt(SumSeq(total_money))]

Column(d, c) == [i \in DOMAIN d |-> d[i][c]]

\* the drop as it would be if it took Total_Money and left 'Fake Money'
DropTotalMoney(d) == [i \in DOMAIN d |-> SubSeq(d[i], 1, 4) \o SubSeq(d[i], 6, 6)]

\* d.drop('Fake Money', axis=1) of the wide layout
DropFakeMoney(d) == [i \in DOMAIN d |-> SubSeq(d[i], 1, 3) \o SubSeq(d[i], 5, 6)]

\* one pass of the loop body of league_money (lines 51..68) on the frame d
\* of the file named season: the dict after it
\* the loop body without the check of the column count: the fourth column
\* is taken as Total_Money whatever the layout
LeagueMoneyStepAnyShape(m, season, d) ==
  Update(m, season[1], MoneySummary(Column(d, 4)))

LeagueMoneyStep(m, season, d) ==
  LET m5 == IF Shape1(d) = 5
            THEN Update(m, season[1], MoneySummary(Column(d, 4)))
            ELSE m
      d6 == IF Shape1(d) = 6 THEN DropFakeMoney(d) ELSE d
      m6 == IF Shape1(d) = 6
            THEN Update(m5, season[1], MoneySummary(Column(d6, 4)))
            ELSE m5
  IN m6

Get(d, k) == d[CHOOSE i \in DOMAIN d : d[i].key = k].row

\* line 92: the new name of a column
Renamed(c) ==
  CASE c = "Cost:" -> "cost"
    [] c = "Dotabuff Link:" -> "player_id"
    [] c = "MMR:" -> "mmr"

\* the cell of row r in column c after line 90; the id text is kept as the
\* number it spells
DraftCell(r, c) ==
  CASE c = "Cost:" -> FromInt(r.cost)
    [] c = "Dotabuff Link:" -> FromInt(ParseInt(modification(r.link)))
    [] c = "MMR:" -> FromInt(r.mmr)

\* the columns of d after line 87 for a file that lacks the columns absent
FrameColumns(absent) == SelectSeq(KeptDraftColumns, LAMBDA c : c \notin absent)

\* lines 87 and 90 raise KeyError for a column they name and do not find
RaisesKeyError(absent) ==
  absent \cap (DroppedDraftColumns \cup {"Dotabuff Link:"}) # {}

\* assign as it would be with sum taken from the row's own cost
PlayerRowOwnSum(r, columns, summary) ==
  [i \in DOMAIN columns |->
     [label |-> Plain(Renamed(columns[i])), value |-> DraftCell(r, columns[i])]]
  \o
  <<[label |-> Plain("count"), value |-> summary.count],
    [label |-> Plain("mean"), value |-> summary.mean],
    [label |-> Plain("std2"), value |-> summary.std2],
    [label |-> Plain("min"), value |-> summary.min],
    [label |-> Plain("max"), value |-> summary.max],
    [label |-> Plain("sum"), value |-> FromInt(r.cost)]>>

\* a row of d after drop, map, rename and assign (lines 87..99)
PlayerRow(r, columns, summary) ==
  [i \in DOMAIN columns |->
     [label |-> Plain(Renamed(columns[i])), value |-> DraftCell(r, columns[i])]]
  \o
  <<[label |-> Plain("count"), value |-> summary.count],
    [label |-> Plain("mean"), value |-> summary.mean],
    [label |-> Plain("std2"), value |-> summary.std2],
    [label |-> Plain("min"), value |-> summary.min],
    [label |-> Plain("max"), value |-> summary.max],
    [label |-> Plain("sum"), value |-> summary.sum]>>

\* d of one draft file: every row with the p_id that d.iloc[players, 1]
\* reads from it, the cell of the second column
DraftFrame(rows, columns, summary) ==
  [i \in DOMAIN rows |->
     LET row == PlayerRow(rows[i], columns, summary)
     IN [p_id |-> row[2].value.num, row |-> row]]

\* the file of instructions that data/ holds beside the csv files
InstructionsName == <<"INSTRUCTIONS.md">>

\* a listing of data/ for the files d: INSTRUCTIONS.md and the csv files
\* that are there, in an order that is not the sorted one
DirOf(d) ==
  SelectSeq(<<CaptainName("S31"), InstructionsName, DraftName("S31"),
              DraftName("S30"), CaptainName("S30")>>,
            LAMBDA n : \/ n = InstructionsName
                       \/ n # InstructionsName /\ n[5] = "Draft" /\ d.draft[n[1]].present
                       \/ n # InstructionsName /\ n[5] # "Draft" /\ d.captain[n[1]].present)

\* lines 13..19: the names of the listing that go to draft, and to captains
DraftOf(listed) ==
  {listed[i] : i \in {j \in DOMAIN listed :
      listed[j] # InstructionsName /\ listed[j][5] = "Draft"}}
CaptainsOf(listed) ==
  {listed[i] : i \in {j \in DOMAIN listed :
      listed[j] # InstructionsName /\ listed[j][5] # "Draft"}}

\* a file of data/ whose name has fewer than five words
ShortName == <<"notes.txt">>

\* line 16: _.split()[4] raises IndexError on a name of fewer than five
\* words; nothing catches it
RaisesIndexError(listed) ==
  \E i \in DOMAIN listed : listed[i] # InstructionsName /\ Len(listed[i]) < 5

\* sorted(names): the names of one kind differ in the season token only
RECURSIVE SortNames(_)
SortNames(S) ==
  IF S = {} THEN <<>>
  ELSE LET m == CHOOSE x \in S : \A y \in S : SeasonRank(x[1]) <= SeasonRank(y[1])
       IN <<m>> \o SortNames(S \ {m})

InitPrep ==
  /\ HeroIdle
  /\ AsmIdle
  /\ ModIdle
  /\ NameIdle
  /\ data \in [draft : {f \in [Seasons -> DraftFiles] :
                           Len(f["S31"].rows) <= MaxLaterRows},
               captain : [Seasons -> CaptainFiles]]
  /\ dir = DirOf(data)
  /\ p_said = <<>>
  /\ p_pc = "list_format"
  /\ draft = <<>>
  /\ captains = <<>>
  /\ p_pass = 0
  /\ p_ci = 0
  /\ money = <<>>
  /\ p_di = 0
  /\ p_d = <<>>
  /\ p_ri = 0
  /\ players_dict = <<>>
  /\ written = NoFile

OtherPrepVars == <<heroVars, asmVars, data, dir, modVars, nameVars>>

\* the file of data/ with the name n, as pd.read_csv reads it
FileAt(n) == IF n[5] = "Draft" THEN data.draft[n[1]] ELSE data.captain[n[1]]

\* draft, captains = list_format("data"): the names are told apart, the
\* count mismatch is printed, and both lists are sorted
PrepListFormat ==
  /\ p_pc = "list_format"
  /\ IF RaisesIndexError(dir)
     THEN /\ p_pc' = "crashed"
          /\ UNCHANGED <<draft, captains, p_said, p_pass, p_ci, money>>
     ELSE /\ draft' = SortNames(DraftOf(dir))
          /\ captains' = SortNames(CaptainsOf(dir))
          /\ p_said' = IF Cardinality(CaptainsOf(dir)) # Cardinality(DraftOf(dir))
                       THEN <<[said |-> "DATA PROBLEM", file |-> <<>>]>>
                       ELSE <<>>
          /\ p_pc' = "league_money"
          /\ p_pass' = 1
          /\ p_ci' = 1
          /\ money' = <<>>
  /\ UNCHANGED <<OtherPrepVars, p_di, p_d, p_ri, players_dict, written>>

\* one captain file of the loop of league_money
PrepCaptainFile ==
  /\ p_pc = "league_money"
  /\ p_ci <= Len(captains)
  /\ money' = LeagueMoneyStep(money, captains[p_ci], FileAt(captains[p_ci]).rows)
  /\ p_said' = IF Shape1(FileAt(captains[p_ci]).rows) \in {5, 6}
               THEN p_said
               ELSE Append(p_said, [said |-> "Weird Error Here",
                                    file |-> captains[p_ci]])
  /\ p_ci' = p_ci + 1
  /\ UNCHANGED <<OtherPrepVars, p_pc, draft, captains, p_pass, p_di, p_d, p_ri,
                 players_dict, written>>

\* line 126: the first call returns and its dict is dropped; line 127 calls
\* league_money again
PrepSecondCall ==
  /\ p_pc = "league_money"
  /\ p_ci > Len(captains)
  /\ p_pass = 1
  /\ p_pass' = 2
  /\ p_ci' = 1
  /\ money' = <<>>
  /\ UNCHANGED <<OtherPrepVars, p_said, p_pc, draft, captains, p_di, p_d, p_ri,
                 players_dict, written>>

\* the second call returns: df_gen(draft, money, data_type) starts
PrepEnterDfGen ==
  /\ p_pc = "league_money"
  /\ p_ci > Len(captains)
  /\ p_pass = 2
  /\ p_pc' = "df_gen"
  /\ p_di' = 1
  /\ players_dict' = <<>>
  /\ UNCHANGED <<OtherPrepVars, p_said, draft, captains, p_pass, p_ci, money, p_d, p_ri,
                 written>>

\* df_gen as it would be if it took the summary of the captain file at the
\* index of the draft file
PrepDraftFileByIndex ==
  /\ p_pc = "df_gen"
  /\ p_di <= Len(draft)
  /\ p_di <= Len(captains)
  /\ LET season == draft[p_di]
         player_season == captains[p_di][1]
     IN /\ ~RaisesKeyError(FileAt(season).absent)
        /\ HasKey(money, player_season)
        /\ p_d' = DraftFrame(FileAt(season).rows,
                             FrameColumns(FileAt(season).absent),
                             Get(money, player_season))
  /\ p_ri' = 1
  /\ p_pc' = "rows"
  /\ UNCHANGED <<OtherPrepVars, p_said, draft, captains, p_pass, p_ci, money, p_di,
                 players_dict, written>>

\* lines 78..99: one draft file is read, renamed and given the season's
\* summary
PrepDraftFile ==
  /\ p_pc = "df_gen"
  /\ p_di <= Len(draft)
  /\ LET season == draft[p_di]
         player_season == season[1]
     IN /\ ~RaisesKeyError(FileAt(season).absent)
        /\ HasKey(money, player_season)
        /\ p_d' = DraftFrame(FileAt(season).rows,
                             FrameColumns(FileAt(season).absent),
                             Get(money, player_season))
  /\ p_ri' = 1
  /\ p_pc' = "rows"
  /\ UNCHANGED <<OtherPrepVars, p_said, draft, captains, p_pass, p_ci, money, p_di,
                 players_dict, written>>

\* lines 87 and 90: a dropped column or the link column is not in the
\* file; the KeyError is not caught
PrepDraftSchemaError ==
  /\ p_pc = "df_gen"
  /\ p_di <= Len(draft)
  /\ RaisesKeyError(FileAt(draft[p_di]).absent)
  /\ p_pc' = "crashed"
  /\ UNCHANGED <<OtherPrepVars, p_said, draft, captains, p_pass, p_ci, money, p_di, p_d,
                 p_ri, players_dict, written>>

\* line 99: money[player_season] raises KeyError when the dict has no entry
\* for the season; nothing catches it
PrepDraftKeyError ==
  /\ p_pc = "df_gen"
  /\ p_di <= Len(draft)
  /\ ~RaisesKeyError(FileAt(draft[p_di]).absent)
  /\ ~HasKey(money, draft[p_di][1])
  /\ p_pc' = "crashed"
  /\ UNCHANGED <<OtherPrepVars, p_said, draft, captains, p_pass, p_ci, money, p_di, p_d,
                 p_ri, players_dict, written>>

\* lines 102..104: one row of d enters players_dict
PrepDraftRow ==
  /\ p_pc = "rows"
  /\ p_ri <= Len(p_d)
  /\ players_dict' = Update(players_dict, Key(p_d[p_ri].p_id, draft[p_di][1]),
                            p_d[p_ri].row)
  /\ p_ri' = p_ri + 1
  /\ UNCHANGED <<OtherPrepVars, p_said, p_pc, draft, captains, p_pass, p_ci, money, p_di,
                 p_d, written>>

\* the rows of the file are done: the next draft file
PrepNextDraft ==
  /\ p_pc = "rows"
  /\ p_ri > Len(p_d)
  /\ p_di' = p_di + 1
  /\ p_pc' = "df_gen"
  /\ UNCHANGED <<OtherPrepVars, p_said, draft, captains, p_pass, p_ci, money, p_d, p_ri,
                 players_dict, written>>

\* lines 106..120: the table is written
PrepWrite ==
  /\ p_pc = "df_gen"
  /\ p_di > Len(draft)
  /\ written' = Written(FromDict(players_dict))
  /\ p_pc' = "done"
  /\ UNCHANGED <<OtherPrepVars, p_said, draft, captains, p_pass, p_ci, money, p_di, p_d,
                 p_ri, players_dict>>

NextPrep ==
  \/ PrepListFormat
  \/ PrepCaptainFile
  \/ PrepSecondCall
  \/ PrepEnterDfGen
  \/ PrepDraftFile
  \/ PrepDraftSchemaError
  \/ PrepDraftKeyError
  \/ PrepDraftRow
  \/ PrepNextDraft
  \/ PrepWrite

SpecPrep == InitPrep /\ [][NextPrep]_vars

-----------------------------------------------------------------------------
(* training_data_prep.py over the listings of data/: any of the names, in   *)
(* any order                                                                *)

ListedNames == DataNames \cup {InstructionsName, ShortName}

\* os.listdir gives each name of the folder once, in an order of its own
FolderListings ==
  {q \in UNION {[1..n -> ListedNames] : n \in 0..Cardinality(ListedNames)} :
     \A i, j \in DOMAIN q : i # j => q[i] # q[j]}

Listed(listed, n) == \E i \in DOMAIN listed : listed[i] = n

\* the files behind a listing: a draft file has one row, and the draft file
\* of S31 may lack a column; a captain file has one row in the layout of
\* five columns
ListedData(listed) ==
  {d \in [draft : [Seasons -> {DraftFile({}, <<DraftRowOf(1, 1)>>),
                               DraftFile({"Winner:"}, <<DraftRowOf(1, 1)>>),
                               NoDraft}],
          captain : [Seasons -> {File(<<CaptainRow5(100)>>), Missing}]] :
     /\ \A s \in Seasons :
          /\ d.draft[s].present <=> Listed(listed, DraftName(s))
          /\ d.captain[s].present <=> Listed(listed, CaptainName(s))
     /\ d.draft["S30"].absent = {}}

InitList ==
  /\ HeroIdle
  /\ AsmIdle
  /\ ModIdle
  /\ NameIdle
  /\ dir \in FolderListings
  /\ data \in ListedData(dir)
  /\ p_said = <<>>
  /\ p_pc = "list_format"
  /\ draft = <<>>
  /\ captains = <<>>
  /\ p_pass = 0
  /\ p_ci = 0
  /\ money = <<>>
  /\ p_di = 0
  /\ p_d = <<>>
  /\ p_ri = 0
  /\ players_dict = <<>>
  /\ written = NoFile

SpecList == InitList /\ [][NextPrep]_vars

----------------------------------------------------------------------------
(* The two scripts in a row: training_data_prep.py writes                   *)
(* output/training_data_prepped.csv and feature_engineering.py reads it     *)

\* the hero history of the worked example of spec.md: hero 1, 10 games, 5 won
E2EHistory == Json(<<[hero_id |-> 1, games |-> 10, win |-> 5]>>)

\* data/ holds the files of one season, and the draft file has one row
E2EData ==
  {d \in [draft : [Seasons -> DraftFiles], captain : [Seasons -> CaptainFiles]] :
     /\ d.draft["S30"].present
     /\ Len(d.draft["S30"].rows) = 1
     /\ ~d.draft["S31"].present
     /\ ~d.captain["S31"].present}

InitE2E ==
  /\ HeroIdle
  /\ AsmIdle
  /\ ModIdle
  /\ NameIdle
  /\ data \in E2EData
  /\ dir = DirOf(data)
  /\ p_said = <<>>
  /\ p_pc = "list_format"
  /\ draft = <<>>
  /\ captains = <<>>
  /\ p_pass = 0
  /\ p_ci = 0
  /\ money = <<>>
  /\ p_di = 0
  /\ p_d = <<>>
  /\ p_ri = 0
  /\ players_dict = <<>>
  /\ written = NoFile

\* the cells of a column of a written table as a Series (the order of the
\* labels is not modelled)
RECURSIVE SeriesOf(_)
SeriesOf(f) ==
  IF DOMAIN f = {} THEN <<>>
  ELSE LET l == CHOOSE x \in DOMAIN f : TRUE
       IN <<[label |-> l, value |-> f[l]]>>
          \o SeriesOf([x \in DOMAIN f \ {l} |-> f[x]])

\* pd.read_csv(location, index_col=0).transpose() of a written table: one
\* row per key, named by the key
ReadPrepped(table) ==
  [k \in DOMAIN table |->
     [name |-> table[k].key,
      player_id |-> table[k].row[Plain("player_id")].num,
      fields |-> SeriesOf(table[k].row)]]

\* feature_engineering.py is started on the output/ directory that
\* training_data_prep.py has written to
E2EStartAssembler ==
  /\ p_pc = "done"
  /\ a_pc = "idle"
  /\ stratz_available' \in BOOLEAN
  /\ listing' \in UNION {Perms(S) : S \in {{TrainingCsv},
                                            {TrainingCsv, ResultOf(TrainingCsv)}}}
  /\ prepped' = [f \in PreppedNames |->
                   IF f = TrainingCsv THEN ReadPrepped(written.table) ELSE <<>>]
  /\ a_pc' = "menu"
  /\ disk' = [f \in ResultNames |->
                IF Member(listing', f) THEN OldFile ELSE NoFile]
  /\ UNCHANGED <<heroVars, prepVars, files, a_fi, players, a_i, output, diag>>

\* x = heroes(player) inside hero_information: the collaborator may also
\* answer with the history of the worked example
E2EHeroesCall ==
  /\ a_pc = "hero"
  /\ HeroesCall(AsmTexts(players[a_i].player_id) \cup {E2EHistory})
  /\ UNCHANGED <<asmVars, prepVars>>

NextE2E ==
  \/ PrepListFormat
  \/ PrepCaptainFile
  \/ PrepSecondCall
  \/ PrepEnterDfGen
  \/ PrepDraftFile
  \/ PrepDraftSchemaError
  \/ PrepDraftKeyError
  \/ PrepDraftRow
  \/ PrepNextDraft
  \/ PrepWrite
  \/ E2EStartAssembler
  \/ AsmMenu
  \/ AsmEnd
  \/ AsmSkipResult
  \/ AsmReadFile
  \/ AsmPrompt
  \/ AsmStartPlayer
  \/ E2EHeroesCall
  \/ AsmHeroRetrySleep
  \/ AsmHeroBuild
  \/ AsmAddPlayer
  \/ AsmSleep
  \/ AsmSkipValueError
  \/ AsmSkipPrivate
  \/ AsmUncaught
  \/ AsmSave

SpecE2E == InitE2E /\ [][NextE2E]_vars

----------------------------------------------------------------------------
(* modification called on its own, and once more on what it returned *)

\* the profile link of spec.md, https://dotabuff.com/players/162015739, in
\* the shape of Link
ExampleId == Str(162015739)
ExampleLink == Link(162015739)

\* the texts of at most MaxTextLen characters over a slash, a letter and a
\* digit, and the profile links
ModInputs ==
  UNION {[1..n -> {Slash, Letter, 0}] : n \in 0..MaxTextLen}
  \cup {Link(p) : p \in 1..MaxPlayerId} \cup {ExampleLink}

InitMod ==
  /\ HeroIdle
  /\ AsmIdle
  /\ NameIdle
  /\ data = <<>> /\ p_pc = "idle" /\ draft = <<>> /\ captains = <<>>
  /\ p_pass = 0 /\ p_ci = 0 /\ money = <<>> /\ p_di = 0 /\ p_d = <<>>
  /\ p_ri = 0 /\ players_dict = <<>> /\ written = NoFile
  /\ dir = <<>> /\ p_said = <<>>
  /\ m_pc = "call"
  /\ m_in \in ModInputs
  /\ m_out = <<>>

PrepScriptVars ==
  <<data, dir, p_said, p_pc, draft, captains, p_pass, p_ci, money, p_di, p_d, p_ri,
    players_dict, written>>

OtherModVars == <<heroVars, asmVars, PrepScriptVars, nameVars>>

\* x = modification(input_string)
ModCall ==
  /\ m_pc = "call"
  /\ m_out' = modification(m_in)
  /\ m_pc' = "again"
  /\ UNCHANGED <<OtherModVars, m_in>>

\* modification applied to its own result
ModAgain ==
  /\ m_pc = "again"
  /\ m_in' = m_out
  /\ m_out' = modification(m_out)
  /\ m_pc' = "done"
  /\ UNCHANGED OtherModVars

NextMod ==
  \/ ModCall
  \/ ModAgain

SpecMod == InitMod /\ [][NextMod]_vars

----------------------------------------------------------------------------
(* The season keys league_money and df_gen derive from two file names *)

\* the texts of 1..n characters without a space
Tokens(n) == UNION {[1..k -> {Letter, 0}] : k \in 1..n}

\* what follows the season token in a file name: a space and then at most
\* n - 1 characters
Rests(n) ==
  {<<Space>> \o t : t \in UNION {[1..k -> {Space, Letter, 0}] : k \in 0..(n - 1)}}

\* the file names of data/: the season token first, then a space
FileNames == {t \o r : t \in Tokens(MaxTokenLen), r \in Rests(MaxRestLen)}

InitName ==
  /\ HeroIdle
  /\ AsmIdle
  /\ ModIdle
  /\ data = <<>> /\ p_pc = "idle" /\ draft = <<>> /\ captains = <<>>
  /\ p_pass = 0 /\ p_ci = 0 /\ money = <<>> /\ p_di = 0 /\ p_d = <<>>
  /\ p_ri = 0 /\ players_dict = <<>> /\ written = NoFile
  /\ dir = <<>> /\ p_said = <<>>
  /\ n_pc = "league_money"
  /\ n_captain \in FileNames
  /\ n_draft \in FileNames
  /\ n_money_key = <<>>
  /\ n_draft_key = <<>>

OtherNameVars == <<heroVars, asmVars, PrepScriptVars, modVars>>

\* money.update({season.split()[0]: ...})
NameLeagueMoney ==
  /\ n_pc = "league_money"
  /\ n_money_key' = SeasonOfCaptain(n_captain)
  /\ n_pc' = "df_gen"
  /\ UNCHANGED <<OtherNameVars, n_captain, n_draft, n_draft_key>>

\* player_season = season.split(" ")[0]
NameDfGen ==
  /\ n_pc = "df_gen"
  /\ n_draft_key' = SeasonOfDraft(n_draft)
  /\ n_pc' = "done"
  /\ UNCHANGED <<OtherNameVars, n_captain, n_draft, n_money_key>>

NextName ==
  \/ NameLeagueMoney
  \/ NameDfGen

SpecName == InitName /\ [][NextName]_vars

----------------------------------------------------------------------------
(* Properties of hero_information, checked under SpecHero *)

\* the records of the text hero_information built its result from
Records == h_x.records
HeroIdsIn(recs) == {recs[i].hero_id : i \in DOMAIN recs}

RECURSIVE TotalOf(_, _)
TotalOf(recs, f) ==
  IF Len(recs) = 0 THEN 0 ELSE recs[1][f] + TotalOf(Tail(recs), f)

\* the float v is exactly n/d
IsRatio(v, n, d) == v.den # 0 /\ d # 0 /\ v.num * d = v.den * n

Built == h_pc = "done" /\ h_x.kind = "json"
BuiltOk == Built /\ h_out.tag = "ok"

\* C1: whenever the records hold at least one record with games > 0,
\* hero_information returns a row whose total_games_played is the sum of
\* games and whose total_winrate is (sum of win) / (sum of games).
C1_TotalsOverAllRecords ==
  (Built /\ \E i \in DOMAIN Records : Records[i].games > 0) =>
    /\ h_out.tag = "ok"
    /\ HasLabel(h_out.row, Plain("total_games_played"))
    /\ HasLabel(h_out.row, Plain("total_winrate"))
    /\ Lookup(h_out.row, Plain("total_games_played"))
         = FromInt(TotalOf(Records, "games"))
    /\ IsRatio(Lookup(h_out.row, Plain("total_winrate")),
               TotalOf(Records, "win"), TotalOf(Records, "games"))

\* C1 witness: a row was returned for three records, one of them without
\* games and two with different win rates
C1_Witness ==
  /\ BuiltOk
  /\ Len(Records) = 3
  /\ \E i, j, k \in DOMAIN Records :
       /\ Records[i].games = 0
       /\ Records[j].games = 2 /\ Records[j].win = 1
       /\ Records[k].games = 1 /\ Records[k].win = 1

\* C2 (as claimed): an empty record list, or one whose games and wins are
\* all zero, makes hero_information raise the private-account TypeError,
\* and no row is returned.
C2_PrivateAccountRaisesTypeError ==
  (Built /\ (Len(Records) = 0
             \/ (TotalOf(Records, "games") = 0 /\ TotalOf(Records, "win") = 0))) =>
    /\ h_out.tag = "TypeError"
    /\ h_out.row = <<>>

FirstAnswer ==
  h_log[CHOOSE i \in DOMAIN h_log :
          /\ h_log[i].text # Sentinel
          /\ \A j \in 1..(i - 1) : h_log[j].text = Sentinel].text

\* C4: every sentinel answer is followed by a new request exactly 10 time
\* units after it, hero_information never gives up on a sentinel, and what it
\* returns or raises is built from the first answer that is not the sentinel.
C4_RetryEverySentinelAfterDelay ==
  /\ \A i \in DOMAIN h_log :
       i < Len(h_log) =>
         /\ h_log[i].text = Sentinel
         /\ h_log[i + 1].gap = 10
  /\ (h_log # <<>> /\ h_log[Len(h_log)].text = Sentinel) =>
       /\ h_pc \in {"sleep", "heroes"}
       /\ h_out = NoOutcome
       /\ h_pc = "heroes" => since = 10
  /\ h_pc = "done" =>
       /\ \E i \in DOMAIN h_log : h_log[i].text # Sentinel
       /\ h_out = HeroFeatures(FirstAnswer)

\* C4 witness: a row returned after two sentinel answers and two waits
C4_Witness ==
  /\ BuiltOk
  /\ Len(h_log) = 3
  /\ h_log[1].text = Sentinel /\ h_log[2].text = Sentinel
  /\ h_log[2].gap = 10 /\ h_log[3].gap = 10

\* C5: in the returned row every column of hero a precedes every column of
\* hero b when a < b as numbers, and games_{id} stands immediately before
\* winrate_{id}.
C5_ColumnsInNumericHeroOrder ==
  BuiltOk =>
    /\ \A a, b \in HeroIdsIn(Records) :
         a < b =>
           \A m, n \in {"games", "winrate"} :
             Pos(h_out.row, Label(m, a)) < Pos(h_out.row, Label(n, b))
    /\ \A a \in HeroIdsIn(Records) :
         Pos(h_out.row, Label("winrate", a))
           = Pos(h_out.row, Label("games", a)) + 1

\* C5 witness: a row for the heroes 11, 9 and 10, received in that order
C5_Witness ==
  /\ BuiltOk
  /\ Len(Records) = 3
  /\ Records[1].hero_id = 11 /\ Records[2].hero_id = 9 /\ Records[3].hero_id = 10

\* C6: for every record the row holds games_{hero_id} = games and
\* winrate_{hero_id} = win/games, 0 where games = 0; the hero columns are
\* those of the hero ids of the records and no others.
C6_PerHeroColumns ==
  BuiltOk =>
    /\ \A i \in DOMAIN Records :
         LET r == Records[i] IN
           /\ HasLabel(h_out.row, Label("games", r.hero_id))
           /\ HasLabel(h_out.row, Label("winrate", r.hero_id))
           /\ Lookup(h_out.row, Label("games", r.hero_id)) = FromInt(r.games)
           /\ IF r.games = 0
              THEN Lookup(h_out.row, Label("winrate", r.hero_id)) = FromInt(0)
              ELSE IsRatio(Lookup(h_out.row, Label("winrate", r.hero_id)),
                           r.win, r.games)
    /\ {h_out.row[i].label : i \in DOMAIN h_out.row} \ {Plain("total_games_played"),
                                                        Plain("total_winrate")}
         = {Label(m, h) : m \in {"games", "winrate"}, h \in HeroIdsIn(Records)}

\* C6 witness: a row for records of which one has no games
C6_Witness ==
  /\ BuiltOk
  /\ \E i, j \in DOMAIN Records :
       /\ Records[i].games = 0
       /\ Records[j].games = 2 /\ Records[j].win = 1

\* C7: the row is total_games_played, total_winrate, then the hero columns
\* in ascending hero order with games before winrate, and nothing else.
C7_RowLayout ==
  BuiltOk =>
    LET row == h_out.row
        ids == Ascending(HeroIdsIn(Records))
    IN /\ Len(row) = 2 + 2 * Len(ids)
       /\ row[1].label = Plain("total_games_played")
       /\ row[2].label = Plain("total_winrate")
       /\ \A k \in DOMAIN ids :
            /\ row[2 * k + 1].label = Label("games", ids[k])
            /\ row[2 * k + 2].label = Label("winrate", ids[k])

\* C7 witness: a row of two aggregate entries and four hero columns
C7_Witness ==
  /\ BuiltOk
  /\ Len(Records) = 2
  /\ Len(h_out.row) = 6

----------------------------------------------------------------------------
(* Properties of the per-player loop, checked under SpecAsm *)

\* hero_information has raised for the current player
PlayerFailed == a_pc = "hero" /\ h_pc = "done" /\ h_out.tag # "ok"

\* C3 (as claimed): when hero_information fails for a player the run goes
\* on: the player is skipped with one diagnostic, output keeps its rows and
\* gets none for the player, and the loop turns to the next player.
C3_PlayerFailureIsSkipped ==
  [][PlayerFailed =>
       /\ a_pc' = "player"
       /\ a_i' = a_i + 1
       /\ diag' = Append(diag, diag'[Len(diag')])
       /\ diag'[Len(diag')].player = players[a_i].name
       /\ (output' = output)]_vars

\* C16 (as claimed): once a player has been added, the result file of the
\* prepped file being worked on holds the player's row.
C16_AddedRowIsPersisted ==
  a_pc = "sleep" =>
    /\ disk[ResultOf(files[a_fi])].fresh
    /\ \E k \in DOMAIN disk[ResultOf(files[a_fi])].table :
         disk[ResultOf(files[a_fi])].table[k].key = players[a_i].name

\* C17 (as claimed): the first request for a player who is not the first
\* of the file comes at least PlayerDelay seconds after the last request
\* for the player before, whether that player was added or skipped.
C17_DelayBetweenPlayers ==
  (a_pc = "hero" /\ a_i > 1 /\ Len(h_log) >= 1) => h_log[1].gap >= PlayerDelay

\* the step that adds a player without Stratz features: the module is not
\* available, or get_stratz_features printed that it has nothing
AddedWithoutStratz ==
  /\ HeroReturned("ok")
  /\ a_pc' = "sleep"
  /\ ~stratz_available \/ Len(diag') > Len(diag)

\* C19: a player for whom Stratz is unavailable, fails or has no data is
\* added all the same, and the row is the draft fields followed by the hero
\* features and nothing else: no stratz_ column, no placeholder.
C19_NoStratzNoColumns ==
  [][AddedWithoutStratz =>
       /\ HasKey(output', players[a_i].name)
       /\ Get(output', players[a_i].name) = players[a_i].fields \o h_out.row
       /\ \A l \in LabelsOf(Get(output', players[a_i].name)) :
            l \notin LabelsOf(StratzSeries("features"))]_vars

\* C19 witness: with Stratz available a player was added after
\* get_stratz_features reported no data, and the row has no stratz_ column
C19_Witness ==
  /\ a_pc = "sleep"
  /\ stratz_available
  /\ Len(diag) >= 1
  /\ diag[Len(diag)] = [said |-> "no stratz data", player |-> players[a_i].name]
  /\ HasKey(output, players[a_i].name)
  /\ ~HasLabel(Get(output, players[a_i].name), Plain("stratz_match_count"))
  /\ HasLabel(Get(output, players[a_i].name), Plain("total_games_played"))

\* the file the assembler writes for the prepped file it is working on
CurrentResult == ResultOf(files[a_fi])

\* the table t holds the Series of the dict d, one per key, over the union of
\* their labels, and a cell is null wherever the Series has no such label
SparseTableOf(t, d) ==
  /\ Len(t) = Len(d)
  /\ \A k \in DOMAIN d :
       /\ t[k].key = d[k].key
       /\ DOMAIN t[k].row = UNION {LabelsOf(d[j].row) : j \in DOMAIN d}
       /\ \A l \in DOMAIN t[k].row :
            IF HasLabel(d[k].row, l)
            THEN t[k].row[l] = Lookup(d[k].row, l)
            ELSE t[k].row[l] = NaN /\ t[k].row[l] # FromInt(0)

\* C18: the table the assembler writes has the union of the draft fields
\* and of all players' feature labels as its columns, and a player's cell
\* for a hero column the player does not have is null, never 0.
C18_AbsentCellsAreNull ==
  [][(a_pc = "player" /\ a_pc' = "file")
       => SparseTableOf(disk'[CurrentResult].table, output)]_vars

\* C18 witness: a written table of two players where the first lacks a
\* games column of the second
C18_Witness ==
  /\ a_pc \in {"file", "exit"}
  /\ \E f \in ResultNames :
       /\ disk[f].fresh
       /\ Len(disk[f].table) >= 2
       /\ \E l \in DOMAIN disk[f].table[1].row :
            /\ l.metric = "games"
            /\ disk[f].table[1].row[l] = NaN
            /\ disk[f].table[2].row[l] = FromInt(MaxGames)

----------------------------------------------------------------------------
(* Properties of league_money and df_gen, checked under SpecPrep *)

\* C8 (as claimed): rows are keyed by player and season, and a row that is
\* in players_dict is never replaced or removed by a later step of df_gen.
C8_RowsNeverUpdatedInPlace ==
  [][(p_pc = "df_gen" \/ p_pc = "rows") =>
       (\A i \in DOMAIN players_dict :
          /\ i \in DOMAIN players_dict'
          /\ players_dict'[i] = players_dict[i])]_vars

\* C9 (as claimed): a failure that belongs to one season, such as a skipped
\* captain file, never ends the run before the table is written.
C9_SeasonFailureNeverAborts == p_pc # "crashed"

\* the captain files the running call of league_money has gone through
CaptainsDone == 1..(p_ci - 1)
CaptainShape(i) == Len(FileAt(captains[i]).rows[1])
\* the Total_Money column of a captain file with 5 or 6 columns
TotalMoneyOf(i) ==
  LET rows == FileAt(captains[i]).rows
  IN [k \in DOMAIN rows |-> rows[k][IF CaptainShape(i) = 6 THEN 5 ELSE 4]]

\* C10: a captain file with neither 5 nor 6 columns adds no entry to money,
\* leaves the entries of the other seasons as they are, and the files after
\* it are processed: at every point of the loop money holds exactly the
\* seasons of the 5- and 6-column files gone through, each with the count
\* and sum of its own Total_Money column.
C10_OtherShapeIsSkipped ==
  p_pc = "league_money" =>
    LET good == {i \in CaptainsDone : CaptainShape(i) \in {5, 6}} IN
      /\ p_ci <= Len(captains) + 1
      /\ {money[k].key : k \in DOMAIN money} = {captains[i][1] : i \in good}
      /\ Len(money) = Cardinality(good)
      /\ \A i \in good :
           /\ Get(money, captains[i][1]).count = FromInt(Len(TotalMoneyOf(i)))
           /\ Get(money, captains[i][1]).sum = FromInt(SumSeq(TotalMoneyOf(i)))

\* C10 witness: the first captain file had 4 columns and was skipped, the
\* second had 6 and its season is the only entry of money
C10_Witness ==
  /\ p_pc = "league_money"
  /\ p_pass = 2
  /\ Len(captains) = 2
  /\ p_ci = 3
  /\ CaptainShape(1) = 4
  /\ CaptainShape(2) = 6
  /\ Len(money) = 1
  /\ money[1].key = "S31"

\* the labels df_gen's rename gives the required columns of the model
RequiredLabels == {Plain("cost"), Plain("player_id"), Plain("mmr")}

\* C11 (as claimed): df_gen does not get past the rename with a required
\* column absent: every row it goes on to place has cost, player_id and mmr.
C11_AbsentColumnFails ==
  p_pc = "rows" =>
    \A i \in DOMAIN p_d : \A l \in RequiredLabels : HasLabel(p_d[i].row, l)

\* the Total_Money column of the captain file of season s, by its header
SeasonTotalMoney(s) ==
  LET rows == data.captain[s].rows
  IN [k \in DOMAIN rows |-> rows[k][IF Len(rows[1]) = 6 THEN 5 ELSE 4]]

\* the six summary cells of a row
SummaryCells(row) ==
  [count |-> Lookup(row, Plain("count")),
   mean |-> Lookup(row, Plain("mean")),
   std2 |-> Lookup(row, Plain("std2")),
   min |-> Lookup(row, Plain("min")),
   max |-> Lookup(row, Plain("max")),
   sum |-> Lookup(row, Plain("sum"))]

\* C12: every row df_gen has placed carries count, mean, std, min, max and
\* sum of its season's Total_Money column, so two rows of one season agree
\* on all six.
C12_SeasonSummaryOnEveryRow ==
  /\ \A k \in DOMAIN players_dict :
       SummaryCells(players_dict[k].row)
         = MoneySummary(SeasonTotalMoney(players_dict[k].key.season))
  /\ \A j, k \in DOMAIN players_dict :
       players_dict[j].key.season = players_dict[k].key.season
         => SummaryCells(players_dict[j].row) = SummaryCells(players_dict[k].row)

\* C12 witness: two players of S30 and one of S31 are placed, and the two
\* seasons differ in their summaries
C12_Witness ==
  /\ Len(players_dict) = 3
  /\ players_dict[1].key.season = "S30"
  /\ players_dict[2].key.season = "S30"
  /\ players_dict[3].key.season = "S31"
  /\ SummaryCells(players_dict[1].row).count = FromInt(2)
  /\ SummaryCells(players_dict[1].row).mean = FromInt(200)
  /\ SummaryCells(players_dict[3].row).count = FromInt(1)
  /\ SummaryCells(players_dict[1].row) # SummaryCells(players_dict[3].row)

\* the 5-column captain files with the Total_Money column total_money
NarrowFilesWith(total_money) ==
  {f \in CaptainFiles :
     f.present /\ Shape1(f.rows) = 5 /\ Column(f.rows, 4) = total_money}

\* C13: the summary league_money keeps for a 6-column captain file is the
\* one it computes for the 5-column file with the same Total_Money column,
\* whatever the 'Fake Money' column holds.
C13_FakeMoneyDroppedBeforeSummary ==
  p_pc = "league_money" =>
    \A i \in CaptainsDone :
      CaptainShape(i) = 6 =>
        /\ NarrowFilesWith(TotalMoneyOf(i)) # {}
        /\ \A f \in NarrowFilesWith(TotalMoneyOf(i)) :
             Get(money, captains[i][1])
               = Get(LeagueMoneyStep(<<>>, captains[i], f.rows), captains[i][1])

\* C13 witness: a 6-column file whose 'Fake Money' column would have changed
\* every total has been summarised
C13_Witness ==
  /\ p_pc = "league_money"
  /\ \E i \in CaptainsDone :
       /\ CaptainShape(i) = 6
       /\ Column(FileAt(captains[i]).rows, 4) = <<500, 0>>
       /\ TotalMoneyOf(i) = <<100, 300>>
       /\ Get(money, captains[i][1]).sum = FromInt(400)

\* the keys of a written table, in the order of its rows
KeysOf(t) == [k \in DOMAIN t |-> t[k].key]

\* two readings of the order of the keys "{player_id}_{season}": by player
\* and then season, as the text of the key reads, or by season and then
\* player
PlayerFirst(a, b) ==
  \/ a.player < b.player
  \/ a.player = b.player /\ SeasonRank(a.season) <= SeasonRank(b.season)
SeasonFirst(a, b) ==
  \/ SeasonRank(a.season) < SeasonRank(b.season)
  \/ a.season = b.season /\ a.player <= b.player

\* C15 (as claimed): the rows of the table df_gen writes are ordered by key,
\* under one reading of the order or the other.
C15_RowsOrderedByKey ==
  written.fresh =>
    LET keys == KeysOf(written.table) IN
      \/ \A j, k \in DOMAIN keys : j < k => PlayerFirst(keys[j], keys[k])
      \/ \A j, k \in DOMAIN keys : j < k => SeasonFirst(keys[j], keys[k])

----------------------------------------------------------------------------
(* Properties of modification, checked under SpecMod *)

NoSlash(s) == \A i \in DOMAIN s : s[i] # Slash

\* r is what follows the last slash of s, or all of s if s has no slash
AfterLastSlash(s, r) ==
  /\ NoSlash(r)
  /\ Len(r) <= Len(s)
  /\ SubSeq(s, Len(s) - Len(r) + 1, Len(s)) = r
  /\ IF NoSlash(s) THEN Len(r) = Len(s) ELSE s[Len(s) - Len(r)] = Slash

\* C20: modification returns what follows the last '/' of its input: the
\* id of a profile link, and the input itself if it has no '/'; applied to
\* its own result it returns that result.
C20_TrailingSegment ==
  /\ m_pc = "again" =>
       /\ AfterLastSlash(m_in, m_out)
       /\ NoSlash(m_in) => m_out = m_in
       /\ m_in = ExampleLink => m_out = ExampleId
       /\ \A p \in 1..MaxPlayerId : m_in = Link(p) => ParseInt(m_out) = p
  /\ m_pc = "done" => m_out = m_in

\* C20 witness: the profile link of spec.md has been canonicalized, twice
C20_Witness ==
  /\ m_pc = "done"
  /\ m_in = ExampleId
  /\ m_out = ExampleId

----------------------------------------------------------------------------
(* Properties of the two scripts in a row, checked under SpecE2E *)

\* the worked example: Total_Money is [100, 300], the draft file is complete
\* and has one player, and the player is being added with the history of
\* hero 1
WorkedExample ==
  /\ data.captain["S30"].present
  /\ SeasonTotalMoney("S30") = <<100, 300>>
  /\ data.draft["S30"].absent = {}
  /\ HeroReturned("ok")
  /\ h_x = E2EHistory
  /\ a_pc' = "sleep"

\* C14: in the worked example the merged row has the cost of the draft
\* file, mean 200, games_1 10, winrate_1 0.5, total_games_played 10 and
\* total_winrate 0.5.
C14_WorkedExampleRow ==
  [][WorkedExample =>
       /\ HasKey(output', players[a_i].name)
       /\ LET row == Get(output', players[a_i].name) IN
            /\ Lookup(row, Plain("cost")) = FromInt(data.draft["S30"].rows[1].cost)
            /\ Lookup(row, Plain("mean")) = FromInt(200)
            /\ Lookup(row, Label("games", 1)) = FromInt(10)
            /\ Lookup(row, Label("winrate", 1)) = Frac(1, 2)
            /\ Lookup(row, Plain("total_games_played")) = FromInt(10)
            /\ Lookup(row, Plain("total_winrate")) = Frac(1, 2)]_vars

\* C14 witness: the row of the worked example is in output
C14_Witness ==
  /\ a_pc = "sleep"
  /\ p_pc = "done"
  /\ SeasonTotalMoney("S30") = <<100, 300>>
  /\ data.draft["S30"].absent = {}
  /\ Len(output) = 1
  /\ HasLabel(output[1].row, Label("games", 1))
  /\ Lookup(output[1].row, Label("games", 1)) = FromInt(10)
  /\ Lookup(output[1].row, Plain("mean")) = FromInt(200)
  /\ Lookup(output[1].row, Plain("cost")) = FromInt(1)

----------------------------------------------------------------------------
(* Properties of the season keys, checked under SpecName *)

\* t is what precedes the first space of the text s
BeforeFirstSpace(s, t) ==
  /\ Len(t) < Len(s)
  /\ SubSeq(s, 1, Len(t)) = t
  /\ \A i \in DOMAIN t : t[i] # Space
  /\ s[Len(t) + 1] = Space

\* C21: league_money's key of a captain file and df_gen's key of a draft
\* file are both the token before the first space of the file's name, so
\* the two keys are equal exactly when the two names begin with the same
\* season token.
C21_SameSeasonSameKey ==
  n_pc = "done" =>
    /\ BeforeFirstSpace(n_captain, n_money_key)
    /\ BeforeFirstSpace(n_draft, n_draft_key)
    /\ \A t \in Tokens(MaxTokenLen) :
         (BeforeFirstSpace(n_captain, t) /\ BeforeFirstSpace(n_draft, t))
           => (n_money_key = t /\ n_draft_key = t)

\* C21 witness: a captain file and a draft file of one season whose names
\* go on differently after the token, the first with two spaces
C21_Witness ==
  /\ n_pc = "done"
  /\ n_captain = <<Letter, 0, Space, Space, Letter>>
  /\ n_draft = <<Letter, 0, Space, 0>>
  /\ n_money_key = <<Letter, 0>>
  /\ n_draft_key = <<Letter, 0>>

\* the names of a list are in the order of their season tokens
Sorted(names) ==
  \A i, j \in DOMAIN names :
     i < j => SeasonRank(names[i][1]) < SeasonRank(names[j][1])

InList(names, n) == \E i \in DOMAIN names : names[i] = n

\* C22: once list_format is over, the list of draft files and the list of
\* captain files are each sorted, INSTRUCTIONS.md is in neither, every other
\* name of the folder is in exactly one of them, a mismatch of the two counts
\* has been printed as a warning with both lists returned, and when every
\* season has one draft file and one captain file the files at one index are
\* of one season
C22_ListFormatPartitions ==
  p_pc # "list_format" =>
    /\ Sorted(draft)
    /\ Sorted(captains)
    /\ ~InList(draft, InstructionsName)
    /\ ~InList(captains, InstructionsName)
    /\ \A i \in DOMAIN dir :
         dir[i] # InstructionsName =>
           (InList(draft, dir[i]) <=> ~InList(captains, dir[i]))
    /\ Len(draft) # Len(captains) =>
         \E i \in DOMAIN p_said : p_said[i].said = "DATA PROBLEM"
    /\ (\A s \in Seasons : InList(draft, DraftName(s)) <=> InList(captains, CaptainName(s)))
         => /\ Len(draft) = Len(captains)
            /\ \A i \in DOMAIN draft : draft[i][1] = captains[i][1]

----------------------------------------------------------------------------
(* The output table over the whole run, checked under SpecAsm *)

C24_StrictlySequential ==
  [][/\ ((h_pc' # h_pc /\ h_pc' # "idle") \/ Len(h_log') > Len(h_log)) =>
          /\ a_i' = a_i
          /\ (a_pc = "hero" \/ a_pc' = "hero")
     /\ (a_pc # "hero" /\ a_pc' = "hero") =>
          /\ h_pc = "idle"
          /\ a_i \in DOMAIN players
     /\ (a_i' # a_i) =>
          /\ h_pc' = "idle"
          /\ (a_i' = a_i + 1 \/ (a_pc = "prompt" /\ a_i' = 1))]_vars

\* the second player of a file is being fetched, after a retry
C24_Witness ==
  /\ a_pc = "hero"
  /\ a_i = 2
  /\ Len(h_log) >= 2
  /\ Len(output) >= 1

----------------------------------------------------------------------------
(* Further properties of df_gen, checked under SpecPrep *)

\* C25 (as claimed): df_gen cuts the draft table of a season down to the rows
\* of the players before it builds the records, so a stray row below them
\* gives no record and no key: no row of players_dict has the stray row's
\* text as its player_id.
C25_StrayRowsMakeNoKey ==
  \A k \in DOMAIN players_dict :
     Lookup(players_dict[k].row, Plain("player_id"))
       # FromInt(ParseInt(modification(StrayRow.link)))

----------------------------------------------------------------------------
(* Further properties of the per-player loop, checked under SpecAsm *)

\* the players of the current file the loop has gone through
Attempted == 1..(IF a_pc = "sleep" THEN a_i ELSE a_i - 1)

Skipped(name) ==
  \E k \in DOMAIN diag :
     diag[k].player = name /\ diag[k].said \in {"ValueError", "private"}

\* C26 (as claimed): once the collaborator has answered with a text that is
\* not the sentinel, the loop over the players of a file goes on to its end:
\* it never stops before the result file is written, and every player it
\* has gone through has a row in output or a skip diagnostic.
C26_LoopRunsToTheResult ==
  a_pc \in {"player", "hero", "sleep", "crashed"} /\ a_i >= 1 =>
    /\ a_pc # "crashed"
    /\ \A j \in Attempted :
         HasKey(output, players[j].name) \/ Skipped(players[j].name)

\* the keys of a written table
TableKeys(t) == {t[k].key : k \in DOMAIN t}

\* C27: output is made once and never emptied: no step takes a key out of
\* it, and the table written for a file holds the keys of the whole of
\* output, those of the result files written before it in the run included.
C27_ResultHoldsEarlierFiles ==
  [][/\ \A k \in DOMAIN output :
          k \in DOMAIN output' /\ output'[k].key = output[k].key
     /\ \A f \in ResultNames :
          (disk'[f] # disk[f]) =>
            /\ TableKeys(disk'[f].table) = TableKeys(output)
            /\ \A g \in ResultNames :
                 disk[g].fresh =>
                   TableKeys(disk[g].table) \subseteq TableKeys(disk'[f].table)]_vars

\* C27 witness: in 'both' mode the result of the training file was written
\* with the one player of S30, and the result of the prediction file, written
\* after it, holds that player beside its own of S31
C27_Witness ==
  /\ disk[ResultOf(TrainingCsv)].fresh
  /\ disk[ResultOf(PredictionCsv)].fresh
  /\ TableKeys(disk[ResultOf(TrainingCsv)].table) = {Key(1, "S30")}
  /\ TableKeys(disk[ResultOf(PredictionCsv)].table) = {Key(1, "S30"), Key(1, "S31")}

----------------------------------------------------------------------------
(* The pairing of draft and captain files, checked under SpecPrep *)

\* C28: the summary df_gen puts on the rows of a draft file is the one of the
\* captain file with the season token of the draft file's own name, wherever
\* the two files stand in their lists and however long the lists are.
C28_SummaryBySeasonToken ==
  p_pc = "rows" =>
    /\ data.captain[draft[p_di][1]].present
    /\ \A i \in DOMAIN p_d :
         SummaryCells(p_d[i].row) = MoneySummary(SeasonTotalMoney(draft[p_di][1]))

\* C28 witness: the only draft file is the one of S31, it stands first in its
\* list while the captain file of S31 stands second in the other, and the
\* two captain files differ in their summaries
C28_Witness ==
  /\ p_pc = "rows"
  /\ draft = <<DraftName("S31")>>
  /\ captains = <<CaptainName("S30"), CaptainName("S31")>>
  /\ Len(p_d) >= 1
  /\ HasKey(money, "S30")
  /\ Get(money, "S30") # Get(money, "S31")
  /\ SummaryCells(p_d[1].row) = Get(money, "S31")

\* the player_id of a draft row: what modification leaves of its link cell
IdOf(r) == ParseInt(modification(r.link))

\* the pairs of player_id and season among the rows of the draft files
DraftPairs ==
  UNION {{<<IdOf(data.draft[s].rows[i]), s>> : i \in DOMAIN data.draft[s].rows} :
           s \in {t \in Seasons : data.draft[t].present}}

\* the places of players_dict that hold player p of season s
PlacesOf(p, s) ==
  {k \in DOMAIN players_dict :
     /\ players_dict[k].key.season = s
     /\ Lookup(players_dict[k].row, Plain("player_id")) = FromInt(p)}

\* the last row of the file of season s with the player_id of its row i
LastRowOf(s, i) ==
  LET rows == data.draft[s].rows
      j == CHOOSE m \in DOMAIN rows :
             /\ IdOf(rows[m]) = IdOf(rows[i])
             /\ \A n \in DOMAIN rows : IdOf(rows[n]) = IdOf(rows[i]) => n <= m
  IN rows[j]

AnsweredNo == a_pc = "prompt" /\ a_pc' = "exit"

\* C30: the answer 'n' or 'no' at the confirmation of a file ends the run in
\* that step: hero_information is not entered, nothing is written for the
\* file or for a file after it, the result files written before stay as they
\* are, and no step follows the end of the run.
C30_NoEndsTheRun ==
  [][/\ AnsweredNo =>
          /\ h_pc' = "idle"
          /\ h_log' = <<>>
          /\ disk' = disk
          /\ output' = output
          /\ \A j \in a_fi..Len(files) :
               Title(files[j][1]) # "Result" => ~disk'[ResultOf(files[j])].fresh
     /\ a_pc # "exit"]_vars

\* C30 witness: in 'both' mode the first file was processed and its result
\* written, and the run has ended at the confirmation of the second file
C30_Witness ==
  /\ a_pc = "exit"
  /\ Len(files) = 2
  /\ files[1] \in PreppedNames
  /\ files[2] \in PreppedNames
  /\ a_fi = 2
  /\ Len(players) >= 1
  /\ players = prepped[files[2]]
  /\ disk[ResultOf(files[1])].fresh
  /\ Len(disk[ResultOf(files[1])].table) >= 1
  /\ ~disk[ResultOf(files[2])].exists

====
